---- MODULE Spec2Model ----
(***************************************************************************)
(* Model of scripts/parse_portfolio_html.py and                            *)
(* scripts/build_portfolio_list.py.                                        *)
(*                                                                         *)
(* A text is a sequence of lexemes.  A lexeme is a short run of characters *)
(* that every character class used by the scripts' regular expressions     *)
(* (\d, \s, [^>], [^<], [^"]) either accepts whole or rejects at its first *)
(* character, so matching lexeme by lexeme is matching character by        *)
(* character on the texts built from them.                                 *)
(***************************************************************************)
EXTENDS Naturals, Sequences, FiniteSets

VARIABLES
    doc,            \* the markup fed to both scripts, as a sequence of elements
    html,           \* the same markup as text: stdin / the input file / HTML
    listFile,       \* portfolio_list.txt: [exists, text]
    parse_pc,       \* parse_portfolio_html: "ready", "done" or "exit"
    argv,           \* sys.argv[1:] of parse_portfolio_html
    inputExists,    \* html_path.exists() as seen by parse_portfolio_html
    parse_out,      \* parse_portfolio_html: out
    stdout,         \* parse_portfolio_html: standard output
    stderr,         \* parse_portfolio_html: standard error
    exitStatus,     \* parse_portfolio_html: process exit status
    build_pc,       \* build_portfolio_list: "ready" or "done"
    build_out,      \* build_portfolio_list: out
    build_stdout,   \* build_portfolio_list: standard output
    build_stderr    \* build_portfolio_list: standard error

vars == <<doc, html, listFile, parse_pc, argv, inputExists, parse_out, stdout,
          stderr, exitStatus, build_pc, build_out, build_stdout, build_stderr>>

parseVars == <<parse_pc, argv, inputExists, parse_out, stdout, stderr, exitStatus>>
buildVars == <<listFile, build_pc, build_out, build_stdout, build_stderr>>

(***************************************************************************)
(* Bounds                                                                  *)
(***************************************************************************)
\* Longest input, in markup elements.
MaxLen == 3

(***************************************************************************)
(* Lexemes and character classes                                           *)
(***************************************************************************)
Q == "\""
NL == "\n"
SP == " "

Digits == {"0", "1", "2", "3", "4", "5", "6", "7", "8", "9"}
Space == {SP, NL}
TagOpen == {"<div", "<a", "<span", "</span", "<img"}
Lexemes ==
    Digits \cup Space \cup TagOpen \cup
    {Q, ">", "#", "id=", "href=", "src=", "class=", "div_block-4-15103-",
     "span-225-15124-", "c", "t", "p", "u", "v"}
\* [^>], [^<] and [^"]
NotGt == Lexemes \ {">"}
NotLt == Lexemes \ TagOpen
NotQuote == Lexemes \ {Q}

\* The literal text each pattern starts with.
BLOCK_LIT == <<"<div", SP, "id=", Q, "div_block-4-15103-">>
SPAN_LIT == <<"<span", SP, "id=", Q, "span-225-15124-">>
SPAN_END == <<"</span", ">">>
SENTINEL == <<"div_block-4-15103-", "2">>
NO_LINK == <<"(no link)">>

(***************************************************************************)
(* String primitives                                                       *)
(***************************************************************************)
\* s[p:] starts with the (non-empty) text lit.
StartsAt(s, p, lit) ==
    /\ p + Len(lit) - 1 <= Len(s)
    /\ s[p] = lit[1]
    /\ SubSeq(s, p, p + Len(lit) - 1) = lit

\* The first position at or after p whose lexeme is not in class C
\* (Len(s) + 1 when there is none): where a greedy C* from p stops.
SpanEnd(s, p, C) ==
    LET stops == {q \in p..Len(s) : s[q] \notin C}
    IN IF stops = {} THEN Len(s) + 1
       ELSE CHOOSE q \in stops : \A r \in stops : q <= r

\* sub in s
Contains(s, sub) == \E p \in 1..Len(s) : StartsAt(s, p, sub)

\* str.strip()
strip(s) ==
    LET keep == {q \in 1..Len(s) : s[q] \notin Space}
    IN IF keep = {} THEN <<>>
       ELSE LET lo == CHOOSE q \in keep : \A r \in keep : q <= r
                hi == CHOOSE q \in keep : \A r \in keep : q >= r
            IN SubSeq(s, lo, hi)

RECURSIVE DecStr(_)
\* str(n) of an f-string
DecStr(n) ==
    LET d == <<"0", "1", "2", "3", "4", "5", "6", "7", "8", "9">>
    IN IF n < 10 THEN <<d[n + 1]>> ELSE DecStr(n \div 10) \o <<d[(n % 10) + 1]>>

RECURSIVE Concat(_)
Concat(ss) == IF ss = <<>> THEN <<>> ELSE Head(ss) \o Concat(Tail(ss))

(***************************************************************************)
(* The regular expressions                                                 *)
(***************************************************************************)
NoMatch == [found |-> FALSE, group |-> <<>>]
Match(g) == [found |-> TRUE, group |-> g]

\* <div id="div_block-4-15103-\d+"  matched at p: the position after the
\* match, or 0.
BlockMatchEnd(s, p) ==
    LET a == p + Len(BLOCK_LIT)
        e == SpanEnd(s, a, Digits)
    IN IF StartsAt(s, p, BLOCK_LIT) /\ e > a /\ e <= Len(s) /\ s[e] = Q
       THEN e + 1 ELSE 0

RECURSIVE SplitFrom(_, _, _)
\* The segments of s from position p on, the current segment starting at
\* from.
SplitFrom(s, p, from) ==
    IF p > Len(s) THEN <<SubSeq(s, from, Len(s))>>
    ELSE LET e == BlockMatchEnd(s, p)
         IN IF e = 0 THEN SplitFrom(s, p + 1, from)
            ELSE <<SubSeq(s, from, p - 1)>> \o SplitFrom(s, e, e)

\* Every segment runs on to the end of the text.
SplitOverrun(s) ==
    LET segs == SplitFrom(s, 1, 1)
        tails == [k \in 1..Len(segs) |->
                     Concat(SubSeq(segs, k, Len(segs)))]
    IN tails

\* re.split(r'<div id="div_block-4-15103-\d+"', s)
re_split(s) == SplitFrom(s, 1, 1)

\* <span id="span-225-15124-\d+"[^>]*>([^<]+)</span>  matched at p
TitleMatchAt(s, p) ==
    LET a == p + Len(SPAN_LIT)
        e == SpanEnd(s, a, Digits)
        g == SpanEnd(s, e + 1, NotGt)
        h == SpanEnd(s, g + 1, NotLt)
    IN IF /\ StartsAt(s, p, SPAN_LIT)
          /\ e > a /\ e <= Len(s) /\ s[e] = Q
          /\ g <= Len(s)
          /\ h > g + 1
          /\ StartsAt(s, h, SPAN_END)
       THEN Match(SubSeq(s, g + 1, h - 1)) ELSE NoMatch

\* <a\s+href="([^"]+)"  matched at p
LinkMatchAt(s, p) ==
    LET w == SpanEnd(s, p + 1, Space)
        v == SpanEnd(s, w + 2, NotQuote)
    IN IF /\ StartsAt(s, p, <<"<a">>)
          /\ w > p + 1
          /\ StartsAt(s, w, <<"href=", Q>>)
          /\ v > w + 2 /\ v <= Len(s)
       THEN Match(SubSeq(s, w + 2, v - 1)) ELSE NoMatch

\* <img[^>]+src="([^"]+)"  matched at p.  [^>]+ is greedy: of the places
\* where the rest of the pattern matches, the last one is taken.
ImgMatchAt(s, p) ==
    LET t == SpanEnd(s, p + 1, NotGt)
        ok(j) == /\ StartsAt(s, j, <<"src=", Q>>)
                 /\ SpanEnd(s, j + 2, NotQuote) > j + 2
                 /\ SpanEnd(s, j + 2, NotQuote) <= Len(s)
        js == {j \in (p + 2)..t : ok(j)}
    IN IF StartsAt(s, p, <<"<img">>) /\ js # {}
       THEN LET j == CHOOSE x \in js : \A y \in js : x >= y
            IN Match(SubSeq(s, j + 2, SpanEnd(s, j + 2, NotQuote) - 1))
       ELSE NoMatch

\* re.search: the match at the first position that has one.
TitleSearch(s) ==
    LET ps == {p \in 1..Len(s) : TitleMatchAt(s, p).found}
    IN IF ps = {} THEN NoMatch
       ELSE TitleMatchAt(s, CHOOSE p \in ps : \A r \in ps : p <= r)

LinkSearch(s) ==
    LET ps == {p \in 1..Len(s) : LinkMatchAt(s, p).found}
    IN IF ps = {} THEN NoMatch
       ELSE LinkMatchAt(s, CHOOSE p \in ps : \A r \in ps : p <= r)

ImgSearch(s) ==
    LET ps == {p \in 1..Len(s) : ImgMatchAt(s, p).found}
    IN IF ps = {} THEN NoMatch
       ELSE ImgMatchAt(s, CHOOSE p \in ps : \A r \in ps : p <= r)

(***************************************************************************)
(* parse_portfolio_html.py                                                 *)
(***************************************************************************)
\* The preamble is kept as the first item's block.
ParseBlocksKeepPreamble(text) == re_split(text)

\* blocks = re.split(...); blocks = blocks[1:]
ParseBlocks(text) == Tail(re_split(text))

ParseTitle(block) ==
    LET title_m == TitleSearch(block)
    IN IF title_m.found THEN strip(title_m.group) ELSE <<>>

\* "#" is let through.
ParseLinkKeepHash(block) ==
    LET link_m == LinkSearch(block)
        link == IF link_m.found THEN strip(link_m.group) ELSE <<>>
    IN IF link # <<>> THEN link ELSE NO_LINK

\* link = ... ; if link in ("", "#"): link = "" ; "link": link or "(no link)"
ParseLink(block) ==
    LET link_m == LinkSearch(block)
        link == IF link_m.found THEN strip(link_m.group) ELSE <<>>
        link2 == IF link \in {<<>>, <<"#">>} THEN <<>> ELSE link
    IN IF link2 # <<>> THEN link2 ELSE NO_LINK

ParseImg(block) ==
    LET img_m == ImgSearch(block)
    IN IF img_m.found THEN strip(img_m.group) ELSE <<>>

\* The dict appended for block i (0-based enumerate index i - 1).
ParseItem(i, block) ==
    [index |-> i, title |-> ParseTitle(block), image |-> ParseImg(block),
     link |-> ParseLink(block)]

\* A block in which nothing matched is skipped.
ParseExtractSkipEmpty(text) ==
    LET blocks == ParseBlocks(text)
        keep == SelectSeq(blocks, LAMBDA b :
                    TitleSearch(b).found \/ LinkSearch(b).found \/ ImgSearch(b).found)
    IN [i \in 1..Len(keep) |-> ParseItem(i, keep[i])]

\* out, after the for loop over enumerate(blocks)
ParseExtract(text) ==
    LET blocks == ParseBlocks(text)
    IN [i \in 1..Len(blocks) |-> ParseItem(i, blocks[i])]

\* The separating print() is left out.
ParseFormatItemNoBlank(o) ==
    DecStr(o.index) \o <<". **">> \o o.title \o <<"**", NL>>
    \o <<"   - Image: ">> \o o.image \o <<NL>>
    \o <<"   - Link:  ">> \o o.link \o <<NL>>

\* The four print calls for one item; print ends its text with a newline.
ParseFormatItem(o) ==
    DecStr(o.index) \o <<". **">> \o o.title \o <<"**", NL>>
    \o <<"   - Image: ">> \o o.image \o <<NL>>
    \o <<"   - Link:  ">> \o o.link \o <<NL>>
    \o <<NL>>

\* for o in out: print(...)
ParsePrint(out) == Concat([k \in 1..Len(out) |-> ParseFormatItem(out[k])])

STDIN_FLAG == <<"--stdin">>
PATH_ARG == <<"portfolio.html">>
DEFAULT_PATH == "portfolio_source.html"

\* html_path: the argument if there is one, else the default.
HtmlPath(a) == IF Len(a) > 0 THEN a[1] ELSE DEFAULT_PATH

\* The existence test is made in --stdin mode too.
InputMissingAnyMode(a, exists) == ~exists

\* not --stdin mode, and not html_path.exists()
InputMissing(a, exists) ==
    /\ ~(Len(a) > 0 /\ a[1] = "--stdin")
    /\ ~exists

Usage(a) == <<"Usage: parse_portfolio_html.py [path/to/portfolio.html | --stdin]", NL,
              "Missing: ", HtmlPath(a), NL>>

\* main() of parse_portfolio_html.py run with arguments a, the selected
\* path existing or not.
ParseMain(a, exists) ==
    /\ parse_pc = "ready"
    /\ argv' = a
    /\ inputExists' = IF Len(a) > 0 /\ a[1] = "--stdin" THEN inputExists ELSE exists
    /\ IF InputMissing(a, exists)
       THEN /\ stderr' = Usage(a)
            /\ exitStatus' = 1
            /\ parse_pc' = "exit"
            /\ UNCHANGED <<parse_out, stdout>>
       ELSE /\ parse_out' = ParseExtract(html)
            /\ stdout' = ParsePrint(parse_out')
            /\ exitStatus' = 0
            /\ parse_pc' = "done"
            /\ UNCHANGED stderr
    /\ UNCHANGED <<doc, html>>
    /\ UNCHANGED buildVars

(***************************************************************************)
(* build_portfolio_list.py                                                 *)
(***************************************************************************)
\* Only the blank test is made.
BuildGuardBlankOnly(text) == strip(text) # <<>>

\* not (not HTML.strip() or "div_block-4-15103-2" not in HTML)
BuildGuard(text) == strip(text) # <<>> /\ Contains(text, SENTINEL)

\* The preamble is kept as the first item's block.
BuildBlocksKeepPreamble(text) == re_split(text)

BuildBlocks(text) == Tail(re_split(text))

BuildTitle(block) ==
    LET title_m == TitleSearch(block)
    IN IF title_m.found THEN strip(title_m.group) ELSE <<>>

\* "#" is let through.
BuildLinkKeepHash(block) ==
    LET link_m == LinkSearch(block)
        link == strip(IF link_m.found THEN strip(link_m.group) ELSE <<>>)
    IN IF link = <<>> THEN NO_LINK ELSE link

\* link = (... if link_m else "").strip(); if link in ("", "#"): link = "(no link)"
BuildLink(block) ==
    LET link_m == LinkSearch(block)
        link == strip(IF link_m.found THEN strip(link_m.group) ELSE <<>>)
    IN IF link \in {<<>>, <<"#">>} THEN NO_LINK ELSE link

BuildImg(block) ==
    LET img_m == ImgSearch(block)
    IN IF img_m.found THEN strip(img_m.group) ELSE <<>>

\* The tuple (i + 1, title, img, link) appended for a block.
BuildItem(i, block) ==
    <<i, BuildTitle(block), BuildImg(block), BuildLink(block)>>

BuildExtract(text) ==
    LET blocks == BuildBlocks(text)
    IN [i \in 1..Len(blocks) |-> BuildItem(i, blocks[i])]

\* Items are written last to first.
BuildWriteReversed(out) ==
    Concat([k \in 1..Len(out) |->
        LET o == out[Len(out) + 1 - k] IN
        DecStr(o[1]) \o <<". **">> \o o[2] \o <<"**", NL>>
        \o <<"   - Image: ">> \o o[3] \o <<NL>>
        \o <<"   - Link:  ">> \o o[4] \o <<NL, NL>>])

\* The text of the three f.write calls for one item.
BuildFormatItem(o) ==
    DecStr(o[1]) \o <<". **">> \o o[2] \o <<"**", NL>>
    \o <<"   - Image: ">> \o o[3] \o <<NL>>
    \o <<"   - Link:  ">> \o o[4] \o <<NL, NL>>

\* with open(path, "w") as f: for ... in out: f.write(...)
BuildWrite(out) == Concat([k \in 1..Len(out) |-> BuildFormatItem(out[k])])

LIST_PATH == "portfolio_list.txt"
DIAGNOSTIC == <<"Paste the full portfolio HTML into the HTML variable in this script.", NL>>

\* main() of build_portfolio_list.py, HTML being the text html.
BuildMain ==
    /\ build_pc = "ready"
    /\ build_pc' = "done"
    /\ IF ~BuildGuard(html)
       THEN /\ build_stderr' = DIAGNOSTIC
            /\ UNCHANGED <<listFile, build_out, build_stdout>>
       ELSE /\ build_out' = BuildExtract(html)
            /\ listFile' = [exists |-> TRUE, text |-> BuildWrite(build_out')]
            /\ build_stdout' = <<"Wrote ">> \o DecStr(Len(build_out'))
                                \o <<" items to ", LIST_PATH, NL>>
            /\ UNCHANGED build_stderr
    /\ UNCHANGED <<doc, html>>
    /\ UNCHANGED parseVars

(***************************************************************************)
(* Inputs                                                                  *)
(***************************************************************************)
\* A markup element: kind, the text before its value, and its value.
Elem(kind, pre, val) == [kind |-> kind, pre |-> pre, val |-> val]

ATTR_C == <<"class=", Q, "c", Q, SP>>

Elements ==
    { Elem("block", <<>>, <<"1">>),        \* <div id="div_block-4-15103-1">
      Elem("block", <<>>, <<"2">>),        \* <div id="div_block-4-15103-2">
      Elem("a", <<>>, <<SP, "u">>),        \* <a href=" u">
      Elem("a", ATTR_C, <<"v">>),          \* <a class="c" href="v">
      Elem("a", <<>>, <<>>),               \* <a href="">
      Elem("a", <<>>, <<"#">>),            \* <a href="#">
      Elem("a", <<>>, <<SP>>),             \* <a href=" ">
      Elem("span", ATTR_C, <<"t">>),       \* <span id="span-225-15124-1" class="c" >t</span>
      Elem("span", ATTR_C, <<"t", NL, "t">>),  \* ... a title over two lines
      Elem("img", <<>>, <<"p">>),          \* <img src="p">
      Elem("text", <<>>, SENTINEL),        \* the sentinel as plain text
      Elem("text", <<>>, <<NL>>) }         \* a line break

\* The text of an element.
Render(e) ==
    CASE e.kind = "block" -> BLOCK_LIT \o e.val \o <<Q, ">">>
      [] e.kind = "a"     -> <<"<a", SP>> \o e.pre \o <<"href=", Q>> \o e.val \o <<Q, ">">>
      [] e.kind = "span"  -> SPAN_LIT \o <<"1", Q, SP>> \o e.pre \o <<">">> \o e.val \o SPAN_END
      [] e.kind = "img"   -> <<"<img", SP>> \o e.pre \o <<"src=", Q>> \o e.val \o <<Q, ">">>
      [] e.kind = "text"  -> e.val

RenderAll(d) == Concat([k \in 1..Len(d) |-> Render(d[k])])

Docs == UNION {[1..n -> Elements] : n \in 0..MaxLen}

NoFile == [exists |-> FALSE, text |-> <<>>]
StaleFile == [exists |-> TRUE, text |-> <<"stale", NL>>]

Init ==
    /\ doc \in Docs
    /\ html = RenderAll(doc)
    /\ listFile \in {NoFile, StaleFile}
    /\ parse_pc = "ready"
    /\ argv = <<>>
    /\ inputExists = FALSE
    /\ parse_out = <<>>
    /\ stdout = <<>>
    /\ stderr = <<>>
    /\ exitStatus = 0
    /\ build_pc = "ready"
    /\ build_out = <<>>
    /\ build_stdout = <<>>
    /\ build_stderr = <<>>

Next ==
    \* In --stdin mode no path is looked at, so its existence is not an input.
    \/ \E a \in {<<>>, STDIN_FLAG, PATH_ARG} :
          \E exists \in (IF a = STDIN_FLAG THEN {FALSE} ELSE BOOLEAN) : ParseMain(a, exists)
    \/ BuildMain

Spec == Init /\ [][Next]_vars

(***************************************************************************)
(* The structure of the input, read off the elements it was built from     *)
(***************************************************************************)
\* The k-th smallest member of a set of positions.
Kth(S, k) == CHOOSE p \in S : Cardinality({q \in S : q <= p}) = k

BlockPos(d) == {p \in 1..Len(d) : d[p].kind = "block"}
NumBlocks(d) == Cardinality(BlockPos(d))

\* The elements between the k-th block-boundary marker and the next one
\* (or the end of the input).
BlockBody(d, k) ==
    LET p == Kth(BlockPos(d), k)
        later == {q \in BlockPos(d) : q > p}
        stop == IF later = {} THEN Len(d) + 1 ELSE Kth(later, 1)
    IN SubSeq(d, p + 1, stop - 1)

\* The text between the k-th marker and the next one.  The marker ends at
\* the closing quote of the id, so the tag's ">" opens the block's text.
BlockText(d, k) == <<">">> \o RenderAll(BlockBody(d, k))

OfKind(body, kind) == SelectSeq(body, LAMBDA e : e.kind = kind)

\* The input holds the sentinel "div_block-4-15103-2": in a marker whose
\* number starts with 2, or as plain text.
HasSentinel(d) ==
    \E p \in 1..Len(d) :
        \/ d[p].kind = "block" /\ Head(d[p].val) = "2"
        \/ d[p].kind = "text" /\ d[p].val = SENTINEL

\* The input is empty or whitespace only.
Blank(d) == \A p \in 1..Len(d) : d[p].kind = "text" /\ d[p].val = <<NL>>

\* The href the anchor pattern captures in a block: that of the first
\* anchor whose first attribute is a non-empty href.
Captured(body) ==
    LET as == SelectSeq(body, LAMBDA e : e.kind = "a" /\ e.pre = <<>> /\ e.val # <<>>)
    IN IF as = <<>> THEN NoMatch ELSE Match(Head(as).val)

\* The normalization law.
Normalized(c) ==
    IF ~c.found \/ strip(c.group) \in {<<>>, <<"#">>} THEN NO_LINK ELSE strip(c.group)

\* The items of both scripts as (index, title, image, link) tuples.
ParseTuples == [k \in 1..Len(parse_out) |->
    <<parse_out[k].index, parse_out[k].title, parse_out[k].image, parse_out[k].link>>]
BuildRan == build_pc = "done" /\ build_stderr = <<>>

\* The lines of a text: its pieces between line breaks.
SplitLines(t) ==
    LET nls == {p \in 1..Len(t) : t[p] = NL}
    IN [k \in 1..Cardinality(nls) |->
           SubSeq(t, (IF k = 1 THEN 0 ELSE Kth(nls, k - 1)) + 1, Kth(nls, k) - 1)]

\* The four lines the format gives item o = (index, title, image, link).
ItemLines(o) ==
    << DecStr(o[1]) \o <<". **">> \o o[2] \o <<"**">>,
       <<"   - Image: ">> \o o[3],
       <<"   - Link:  ">> \o o[4],
       <<>> >>
AllLines(out) == Concat([k \in 1..Len(out) |-> ItemLines(out[k])])
\* The lines, each ended by a line break.
JoinLines(ls) == Concat([k \in 1..Len(ls) |-> ls[k] \o <<NL>>])
OneLine(o) == \A f \in 2..4 : \A p \in 1..Len(o[f]) : o[f][p] # NL

(***************************************************************************)
(* C1                                                                      *)
(***************************************************************************)
\* C1: parse_portfolio_html on an input with N block-boundary markers
\* extracts exactly N items, the k-th with index k and built from the k-th
\* block in document order; with N = 0 there are no items and no output.
C1_ParseCount ==
    parse_pc = "done" =>
        /\ Len(parse_out) = NumBlocks(doc)
        /\ \A k \in 1..Len(parse_out) :
              /\ parse_out[k].index = k
              /\ parse_out[k] = ParseItem(k, BlockText(doc, k))
        /\ NumBlocks(doc) = 0 => parse_out = <<>> /\ stdout = <<>>

C1_Witness ==
    /\ parse_pc = "done"
    /\ NumBlocks(doc) = 2
    /\ Len(parse_out) = 2
    /\ parse_out[1].link # parse_out[2].link

(***************************************************************************)
(* C2                                                                      *)
(***************************************************************************)
\* C2, as stated: build_portfolio_list on an input with N >= 1 markers
\* always runs the extraction and writes exactly N items.
C2_Original ==
    (build_pc = "done" /\ NumBlocks(doc) >= 1) =>
        /\ Len(build_out) = NumBlocks(doc)
        /\ listFile.exists
        /\ listFile.text = BuildWrite(build_out)

\* C2, amended: build_portfolio_list on an input with N >= 1 markers runs
\* the extraction and writes exactly N items, indexed 1..N in document
\* order, if the input holds the sentinel "div_block-4-15103-2"; without
\* the sentinel it extracts and writes nothing.
C2_Amended ==
    (build_pc = "done" /\ NumBlocks(doc) >= 1) =>
        IF HasSentinel(doc)
        THEN /\ Len(build_out) = NumBlocks(doc)
             /\ \A k \in 1..Len(build_out) :
                   /\ build_out[k][1] = k
                   /\ build_out[k] = BuildItem(k, BlockText(doc, k))
             /\ listFile.exists
             /\ Len(SelectSeq(listFile.text, LAMBDA x : x = "   - Link:  "))
                    = NumBlocks(doc)
             /\ build_stdout = <<"Wrote ">> \o DecStr(NumBlocks(doc))
                                \o <<" items to ", LIST_PATH, NL>>
        ELSE /\ build_out = <<>>
             /\ build_stdout = <<>>
             /\ build_stderr = DIAGNOSTIC

C2_Witness ==
    /\ build_pc = "done"
    /\ NumBlocks(doc) = 2
    /\ Len(build_out) = 2
    /\ build_out[1][4] # build_out[2][4]
    /\ listFile.exists /\ listFile.text # StaleFile.text

(***************************************************************************)
(* C3                                                                      *)
(***************************************************************************)
\* C3: when the embedded HTML is blank or lacks the sentinel, main of
\* build_portfolio_list emits the diagnostic, extracts nothing and leaves
\* portfolio_list.txt as it was; the file changes only in a run whose
\* guard passed.
C3_GuardRejects ==
    [][ /\ (build_pc = "ready" /\ build_pc' = "done"
              /\ (Blank(doc) \/ ~HasSentinel(doc)))
           => /\ build_stderr' = DIAGNOSTIC
              /\ build_out' = <<>>
              /\ build_stdout' = <<>>
              /\ listFile' = listFile
        /\ (listFile' # listFile)
           => /\ build_pc = "ready" /\ build_pc' = "done"
              /\ ~Blank(doc) /\ HasSentinel(doc) ]_vars

C3_Witness ==
    /\ build_pc = "done"
    /\ NumBlocks(doc) >= 1
    /\ ~HasSentinel(doc)
    /\ build_stderr = DIAGNOSTIC
    /\ listFile = StaleFile

(***************************************************************************)
(* C4                                                                      *)
(***************************************************************************)
\* C4: in both scripts an item's link is "(no link)" when its block has no
\* captured anchor href or the captured href, trimmed, is "" or "#"; any
\* other captured href passes through trimmed and otherwise unchanged.  No
\* item's link is "" or "#".
C4_Normalization ==
    /\ parse_pc = "done" =>
          \A k \in 1..Len(parse_out) :
              /\ parse_out[k].link = Normalized(Captured(BlockBody(doc, k)))
              /\ parse_out[k].link \notin {<<>>, <<"#">>}
    /\ BuildRan =>
          \A k \in 1..Len(build_out) :
              /\ build_out[k][4] = Normalized(Captured(BlockBody(doc, k)))
              /\ build_out[k][4] \notin {<<>>, <<"#">>}

\* A block whose captured href is "#", and one whose href is " u".
C4_Witness ==
    /\ parse_pc = "done" /\ BuildRan
    /\ Len(parse_out) = 1 /\ Len(build_out) = 1
    /\ Len(OfKind(BlockBody(doc, 1), "a")) = 2
    /\ \/ /\ Captured(BlockBody(doc, 1)) = Match(<<"#">>)
          /\ parse_out[1].link = NO_LINK /\ build_out[1][4] = NO_LINK
       \/ /\ Captured(BlockBody(doc, 1)) = Match(<<SP, "u">>)
          /\ parse_out[1].link = <<"u">> /\ build_out[1][4] = <<"u">>

(***************************************************************************)
(* C5                                                                      *)
(***************************************************************************)
\* Field f of an item came from an element of the given kind in the body.
FromBody(f, body, kind) == \E p \in 1..Len(body) :
    body[p].kind = kind /\ strip(body[p].val) = f

\* C5: in both scripts the title, image and link of item k come from the
\* text between the k-th marker and the next; a title, anchor or image of
\* another block or of the preamble never populates item k, also when
\* block k has none of its own.
C5_Locality ==
    /\ parse_pc = "done" =>
          \A k \in 1..Len(parse_out) :
              LET body == BlockBody(doc, k) IN
              /\ parse_out[k].title # <<>> => FromBody(parse_out[k].title, body, "span")
              /\ parse_out[k].image # <<>> => FromBody(parse_out[k].image, body, "img")
              /\ parse_out[k].link # NO_LINK => FromBody(parse_out[k].link, body, "a")
    /\ BuildRan =>
          \A k \in 1..Len(build_out) :
              LET body == BlockBody(doc, k) IN
              /\ build_out[k][2] # <<>> => FromBody(build_out[k][2], body, "span")
              /\ build_out[k][3] # <<>> => FromBody(build_out[k][3], body, "img")
              /\ build_out[k][4] # NO_LINK => FromBody(build_out[k][4], body, "a")

\* A first block without an anchor, followed by a block with one.
C5_Witness ==
    /\ parse_pc = "done" /\ BuildRan
    /\ Len(doc) = 3
    /\ doc[1].kind = "block" /\ doc[2].kind = "block" /\ doc[3].kind = "a"
    /\ parse_out[1].link = NO_LINK /\ parse_out[2].link # NO_LINK
    /\ build_out[1][4] = NO_LINK /\ build_out[2][4] # NO_LINK

(***************************************************************************)
(* C6                                                                      *)
(***************************************************************************)
\* C6: when a block holds two or more anchors, the item's link is the
\* normalized href of the first anchor of the block; a later anchor's href
\* is never taken, also when the first anchor's href is empty, is "#" or
\* is not the tag's first attribute.
C6_FirstAnchor ==
    /\ parse_pc = "done" =>
          \A k \in 1..Len(parse_out) :
              LET as == OfKind(BlockBody(doc, k), "a") IN
              Len(as) >= 2 => parse_out[k].link = Normalized(Match(as[1].val))
    /\ BuildRan =>
          \A k \in 1..Len(build_out) :
              LET as == OfKind(BlockBody(doc, k), "a") IN
              Len(as) >= 2 => build_out[k][4] = Normalized(Match(as[1].val))

(***************************************************************************)
(* C7                                                                      *)
(***************************************************************************)
\* C7: every block gives exactly one item; a block with no title, anchor
\* or image gives an item with title "", image "" and link "(no link)",
\* and the other blocks' items keep their index and their own title.
C7_MissingFields ==
    parse_pc = "done" =>
        /\ Len(parse_out) = NumBlocks(doc)
        /\ \A k \in 1..Len(parse_out) :
              LET body == BlockBody(doc, k) IN
              /\ parse_out[k].index = k
              /\ (\A p \in 1..Len(body) : body[p].kind = "text")
                 => parse_out[k] = [index |-> k, title |-> <<>>, image |-> <<>>,
                                    link |-> NO_LINK]
              /\ OfKind(body, "span") # <<>>
                 => parse_out[k].title = strip(OfKind(body, "span")[1].val)
              /\ OfKind(body, "img") # <<>>
                 => parse_out[k].image = strip(OfKind(body, "img")[1].val)

\* Two blocks, the first with a title and the second with nothing.
C7_Witness ==
    /\ parse_pc = "done"
    /\ NumBlocks(doc) = 2
    /\ OfKind(BlockBody(doc, 1), "span") # <<>>
    /\ BlockBody(doc, 2) = <<>>
    /\ Len(parse_out) = 2
    /\ parse_out[1].title = <<"t">>
    /\ parse_out[2] = [index |-> 2, title |-> <<>>, image |-> <<>>, link |-> NO_LINK]

(***************************************************************************)
(* C8                                                                      *)
(***************************************************************************)
\* C8: parse_portfolio_html ends with a non-zero status and the usage
\* message exactly when it is not in --stdin mode and the selected input
\* file does not exist, and then prints no item; in every other case the
\* extraction completes normally.
C8_MissingInput ==
    parse_pc # "ready" =>
        LET missing == argv # STDIN_FLAG /\ ~inputExists IN
        /\ (exitStatus # 0) <=> missing
        /\ (stderr # <<>>) <=> missing
        /\ missing => /\ parse_pc = "exit"
                      /\ stderr = Usage(argv)
                      /\ HtmlPath(argv) \in {DEFAULT_PATH, PATH_ARG[1]}
                      /\ stdout = <<>> /\ parse_out = <<>>
        /\ ~missing => /\ parse_pc = "done"
                       /\ exitStatus = 0
                       /\ Len(parse_out) = NumBlocks(doc)

C8_Witness ==
    /\ parse_pc = "exit"
    /\ argv = <<>>
    /\ ~inputExists
    /\ exitStatus = 1
    /\ NumBlocks(doc) >= 1
    /\ stdout = <<>>

(***************************************************************************)
(* C9                                                                      *)
(***************************************************************************)
\* C9, as stated: for N items the emitted text has exactly 4 * N lines,
\* lines 4k-3..4k being the three lines of item k and an empty line.
C9_Original ==
    /\ parse_pc = "done" =>
          /\ Len(SplitLines(stdout)) = 4 * Len(parse_out)
          /\ SplitLines(stdout) = AllLines(ParseTuples)
    /\ BuildRan =>
          /\ Len(SplitLines(listFile.text)) = 4 * Len(build_out)
          /\ SplitLines(listFile.text) = AllLines(build_out)

\* C9, amended: the emitted text is, for k = 1..N in increasing order, the
\* text "{k}. **{title_k}**", "   - Image: {image_k}", "   - Link:
\* {link_k}" and an empty text, each ended by a line break, no item
\* skipped, repeated or reordered; these are exactly 4 * N lines when no
\* field contains a line break.
C9_Amended ==
    /\ parse_pc = "done" =>
          /\ stdout = JoinLines(AllLines(ParseTuples))
          /\ (\A k \in 1..Len(parse_out) : OneLine(ParseTuples[k]))
             => /\ Len(SplitLines(stdout)) = 4 * Len(parse_out)
                /\ SplitLines(stdout) = AllLines(ParseTuples)
    /\ BuildRan =>
          /\ listFile.text = JoinLines(AllLines(build_out))
          /\ (\A k \in 1..Len(build_out) : OneLine(build_out[k]))
             => /\ Len(SplitLines(listFile.text)) = 4 * Len(build_out)
                /\ SplitLines(listFile.text) = AllLines(build_out)

C9_Witness ==
    /\ parse_pc = "done" /\ BuildRan
    /\ Len(parse_out) = 2 /\ Len(build_out) = 2
    /\ parse_out[1].title = <<"t">>
    /\ \A k \in 1..2 : OneLine(ParseTuples[k])
    /\ Len(SplitLines(stdout)) = 8
    /\ Len(SplitLines(listFile.text)) = 8

(***************************************************************************)
(* C10                                                                     *)
(***************************************************************************)
\* C10: on an input that passes build_portfolio_list's guard, both scripts
\* compute the same (index, title, image, link) tuples, and the text
\* written to portfolio_list.txt is the text parse_portfolio_html prints.
C10_Equivalence ==
    (parse_pc = "done" /\ BuildRan) =>
        /\ ParseTuples = build_out
        /\ stdout = listFile.text

C10_Witness ==
    /\ parse_pc = "done" /\ BuildRan
    /\ Len(build_out) = 2
    /\ build_out[1][4] = <<"u">>
    /\ build_out[2][4] = NO_LINK
    /\ stdout = listFile.text
    /\ stdout # <<>>

====
